---------------------------- MODULE Spec2Model ----------------------------
(***************************************************************************)
(* Bleeper: the word-redaction pipeline of bleep.py and the part of        *)
(* bleepvideo.py that runs it.                                             *)
(*                                                                         *)
(* Representation.                                                         *)
(*   - A string is a sequence of one-character strings over Chars.         *)
(*   - A timestamp of the transcription (a float, in seconds) is an        *)
(*     integer count of half milliseconds, so that x*1000 can have a       *)
(*     fractional part: x*1000 = t/2.                                      *)
(*   - An AudioSegment is a sequence with one cell per millisecond, the    *)
(*     unit of len() and of slicing.  A cell is an integer: n > 0 is a     *)
(*     sample of the source, 0 is digital silence, -n is tone of           *)
(*     loudness n.                                                         *)
(***************************************************************************)
EXTENDS Integers, Sequences, FiniteSets

VARIABLES
    mode,        \* args.mode
    wordlist,    \* wordlist.txt: [exists, lines]
    pc,          \* position of bleep.py's main; each sys.exit has its own
    status,      \* exit status of bleep.py
    banned,      \* banned
    transcribed, \* model.transcribe was called
    result,      \* the words of result["segments"], in order
    i,           \* number of words the matching loop has visited
    hits,        \* hits
    source,      \* the decoded input, as AudioSegment.from_file returned it
    audio,       \* audio
    plan,        \* sorted(hits, reverse=True)
    k,           \* index in plan of the next hit of the edit loop (0: not loaded)
    trace,       \* one record per iteration of the edit loop
    exported,    \* audio.export wrote <base>_clean<ext>
    wpc,         \* position of bleepvideo.py's main
    wstatus,     \* exit status of bleepvideo.py
    merged       \* merge_audio_video was called

vars == <<mode, wordlist, pc, status, banned, transcribed, result, i, hits,
          source, audio, plan, k, trace, exported, wpc, wstatus, merged>>

---------------------------------------------------------------------------
(* Bounds of the model *)

MaxLines == 2
MaxWords == 2
MaxBufferMs == 240
QuietLeadMs == 20

(* Program constants *)

PADDING_MS == 80

---------------------------------------------------------------------------
(* Helpers *)

Max(a, b) == IF a > b THEN a ELSE b
Min(a, b) == IF a < b THEN a ELSE b

SeqsUpTo(S, n) == UNION {[1..m -> S] : m \in 0..n}

RemoveAt(s, n) == SubSeq(s, 1, n - 1) \o SubSeq(s, n + 1, Len(s))

---------------------------------------------------------------------------
(* Strings *)

Chars == {"h", "H", "i", "!", "#", " "}

IsAlpha(c) == c \in {"h", "H", "i"}
IsSpace(c) == c = " "
LowerChar(c) == IF c = "H" THEN "h" ELSE c

Lower(s) == [n \in 1..Len(s) |-> LowerChar(s[n])]

RECURSIVE LStrip(_)
LStrip(s) == IF s # <<>> /\ IsSpace(Head(s)) THEN LStrip(Tail(s)) ELSE s

RECURSIVE RStrip(_)
RStrip(s) ==
    IF s # <<>> /\ IsSpace(s[Len(s)]) THEN RStrip(SubSeq(s, 1, Len(s) - 1)) ELSE s

Strip(s) == RStrip(LStrip(s))

(* clean_word: "".join(c for c in w.lower() if c.isalpha()) *)
RECURSIVE OnlyAlpha(_)
OnlyAlpha(s) ==
    IF s = <<>> THEN <<>>
    ELSE IF IsAlpha(Head(s)) THEN <<Head(s)>> \o OnlyAlpha(Tail(s))
    ELSE OnlyAlpha(Tail(s))

clean_word(w) == OnlyAlpha(Lower(w))

(* The word one line of the wordlist stands for: line.strip().lower() *)
LineWord(line) == Lower(Strip(line))

(* Whether load_wordlist adds the word of a line *)
LineCounts(line) == LineWord(line) # <<>> /\ Head(LineWord(line)) # "#"

(* load_wordlist, of a file that exists *)
load_wordlist(lines) ==
    {LineWord(lines[n]) : n \in {m \in 1..Len(lines) : LineCounts(lines[m])}}

(* The line load_wordlist writes when it creates the file *)
PlaceholderLine == <<"#", " ", "h">>

---------------------------------------------------------------------------
(* Matching *)

(* int(x * 1000) of a timestamp x: truncation toward zero *)
IntMs(t) == IF t >= 0 THEN t \div 2 ELSE -((-t) \div 2)

(* Mutation of RawInterval: the start is not clamped at 0 *)
RawIntervalUnclamped(w) ==
    <<IntMs(w.start) - PADDING_MS, IntMs(w.end) + PADDING_MS>>

(* The tuple appended to hits for a matched word *)
RawInterval(w) ==
    <<Max(0, IntMs(w.start) - PADDING_MS), IntMs(w.end) + PADDING_MS>>

(* Mutation of IsBanned: the word is lowercased but its punctuation kept *)
IsBannedRaw(w, bannedSet) == Lower(w) \in bannedSet

(* word in banned, of the cleaned word *)
IsBanned(w, bannedSet) == clean_word(w) \in bannedSet

---------------------------------------------------------------------------
(* Audio *)

(* AudioSegment.__getitem__ of a slice [s:e] *)
ParsePosition(a, v) == IF v < 0 THEN Len(a) - (-v) ELSE v
Slice(a, s, e) ==
    LET s1 == ParsePosition(a, Min(s, Len(a)))
        e1 == ParsePosition(a, Min(e, Len(a)))
    IN SubSeq(a, s1 + 1, e1)

(* Mutation of Silent: one millisecond too many *)
SilentOffByOne(d) == IF d + 1 <= 0 THEN <<>> ELSE [n \in 1..(d + 1) |-> 0]

(* AudioSegment.silent(duration=d): int(rate * d / 1000) frames of zeros, *)
(* none when d <= 0                                                        *)
Silent(d) == IF d <= 0 THEN <<>> ELSE [n \in 1..d |-> 0]

(* A tone of d ms at loudness level *)
Tone(d, level) == IF d <= 0 THEN <<>> ELSE [n \in 1..d |-> -level]

Abs(x) == IF x < 0 THEN -x ELSE x

(* The loudness of a segment (.dBFS): 0 stands for -infinity *)
Loudness(seg) ==
    IF seg = <<>> THEN 0
    ELSE CHOOSE m \in {Abs(seg[n]) : n \in 1..Len(seg)} :
            \A n \in 1..Len(seg) : Abs(seg[n]) <= m

(* make_bleep(d): the outcomes.  Sine.to_audio_segment takes                *)
(* int(rate * d / 1000) samples with itertools.islice, which raises         *)
(* ValueError for a negative count.  fade = min(30, d // 4) is 0 for        *)
(* d < 4, and fade_in(0) either raises or leaves the tone as it is.         *)
make_bleep(d) ==
    IF d < 0 THEN {"raise"}
    ELSE IF d \div 4 = 0 THEN {"raise", "tone"}
    ELSE {"tone"}

(* Mutation of ClampedEnd: the end is not clamped to the buffer *)
ClampedEndUnclamped(end_ms, n) == end_ms

(* end_ms = min(end_ms, len(audio)) *)
ClampedEnd(end_ms, n) == Min(end_ms, n)

(* The replacement of one iteration that does not raise *)
Replacement(a, start_ms, end_ms, m) ==
    LET duration == end_ms - start_ms
        segment_vol == Loudness(Slice(a, start_ms, end_ms))
    IN IF m = "silence" THEN Silent(duration)
       ELSE IF segment_vol # 0 THEN Tone(duration, segment_vol)
       ELSE Tone(duration, 1)

(* Mutation of Splice: the replacement is inserted, the span is kept *)
SpliceInsert(a, start_ms, end_ms, replacement) ==
    Slice(a, 0, start_ms) \o replacement \o Slice(a, start_ms, Len(a))

(* audio[:start_ms] + replacement + audio[end_ms:] *)
Splice(a, start_ms, end_ms, replacement) ==
    Slice(a, 0, start_ms) \o replacement \o Slice(a, end_ms, Len(a))

(* One iteration of the edit loop that does not raise *)
Edited(a, hit, m) ==
    LET end_ms == ClampedEnd(hit[2], Len(a))
    IN Splice(a, hit[1], end_ms, Replacement(a, hit[1], end_ms, m))

(* The edit loop over a plan, when no iteration raises *)
RECURSIVE EditLoop(_, _, _)
EditLoop(a, p, m) ==
    IF p = <<>> THEN a ELSE EditLoop(Edited(a, Head(p), m), Tail(p), m)

(* sorted(hits, reverse=True) *)
TupleGreater(x, y) == x[1] > y[1] \/ (x[1] = y[1] /\ x[2] > y[2])

(* Mutation of SortedReverse: the hits are left in transcript order *)
Unsorted(s) == s

RECURSIVE SortedReverse(_)
SortedReverse(s) ==
    IF s = <<>> THEN <<>>
    ELSE LET m == CHOOSE n \in 1..Len(s) :
                     \A j \in 1..Len(s) : ~TupleGreater(s[j], s[n])
         IN <<s[m]>> \o SortedReverse(RemoveAt(s, m))

---------------------------------------------------------------------------
(* Inputs *)

WordlistLines ==
    { <<" ", "H", "i">>, <<"h", "i", "!">>, <<"#", "h", "i">>, <<" ">> }

WordlistFiles ==
    {[exists |-> FALSE, lines |-> <<>>]}
    \cup {[exists |-> TRUE, lines |-> l] : l \in SeqsUpTo(WordlistLines, MaxLines)}

WordTexts == { <<" ", "H", "i", "!">>, <<"!">> }

(* <<start, end>> in half milliseconds: 0.03-0.1 s, 0.1-0.1505 s, 10.0-10.4 s *)
WordTimes == { <<60, 200>>, <<200, 301>>, <<20000, 20800>> }

Words == {[word |-> w, start |-> t[1], end |-> t[2]] : w \in WordTexts, t \in WordTimes}

Transcripts ==
    {r \in SeqsUpTo(Words, MaxWords) :
        \A n \in 1..(Len(r) - 1) : r[n].start <= r[n + 1].start}

BufferLens == {QuietLeadMs, QuietLeadMs + 2, 200, MaxBufferMs}

(* The decoded input of a given length: a quiet lead, then samples *)
Decoded(n) == [p \in 1..n |-> IF p <= QuietLeadMs THEN 0 ELSE p]

---------------------------------------------------------------------------
(* bleep.py *)

Init ==
    /\ mode \in {"bleep", "silence"}
    /\ wordlist \in WordlistFiles
    /\ pc = "start"
    /\ status = 0
    /\ banned = {}
    /\ transcribed = FALSE
    /\ result = <<>>
    /\ i = 0
    /\ hits = <<>>
    /\ source = <<>>
    /\ audio = <<>>
    /\ plan = <<>>
    /\ k = 0
    /\ trace = <<>>
    /\ exported = FALSE
    /\ wpc = "run_bleep"
    /\ wstatus = 0
    /\ merged = FALSE

(* if not os.path.exists(input_path): sys.exit(1) *)
CheckInput ==
    /\ pc = "start"
    /\ \E exists \in BOOLEAN :
          IF exists
          THEN pc' = "load_wordlist" /\ status' = status
          ELSE pc' = "exit_no_input" /\ status' = 1
    /\ UNCHANGED <<mode, wordlist, banned, transcribed, result, i, hits, source,
                   audio, plan, k, trace, exported, wpc, wstatus, merged>>

(* banned = load_wordlist(wordlist_path); if not banned: sys.exit(0) *)
LoadWordlist ==
    /\ pc = "load_wordlist"
    /\ IF wordlist.exists
       THEN /\ banned' = load_wordlist(wordlist.lines)
            /\ wordlist' = wordlist
       ELSE /\ banned' = {}
            /\ wordlist' = [exists |-> TRUE, lines |-> <<PlaceholderLine>>]
    /\ IF banned' = {}
       THEN pc' = "exit_empty" /\ status' = 0
       ELSE pc' = "transcribe" /\ status' = status
    /\ UNCHANGED <<mode, transcribed, result, i, hits, source, audio, plan, k,
                   trace, exported, wpc, wstatus, merged>>

(* result = model.transcribe(input_path, word_timestamps=True) *)
Transcribe ==
    /\ pc = "transcribe"
    /\ \E r \in Transcripts : result' = r
    /\ transcribed' = TRUE
    /\ pc' = "match"
    /\ UNCHANGED <<mode, wordlist, status, banned, i, hits, source, audio, plan,
                   k, trace, exported, wpc, wstatus, merged>>

(* One word of the matching loop *)
MatchWord ==
    /\ pc = "match"
    /\ i < Len(result)
    /\ i' = i + 1
    /\ hits' = IF IsBanned(result[i + 1].word, banned)
               THEN Append(hits, RawInterval(result[i + 1]))
               ELSE hits
    /\ UNCHANGED <<mode, wordlist, pc, status, banned, transcribed, result,
                   source, audio, plan, k, trace, exported, wpc, wstatus, merged>>

(* Mutation of NoHits: the run goes on with no hit *)
NoHitsIgnored(h) == FALSE

(* if not hits *)
NoHits(h) == h = <<>>

(* if not hits: sys.exit(0) *)
MatchDone ==
    /\ pc = "match"
    /\ i = Len(result)
    /\ IF NoHits(hits)
       THEN pc' = "exit_no_hits" /\ status' = 0
       ELSE pc' = "load_audio" /\ status' = status
    /\ UNCHANGED <<mode, wordlist, banned, transcribed, result, i, hits, source,
                   audio, plan, k, trace, exported, wpc, wstatus, merged>>

(* audio = AudioSegment.from_file(input_path); sorted(hits, reverse=True) *)
LoadAudio ==
    /\ pc = "load_audio"
    /\ \E n \in BufferLens : source' = Decoded(n)
    /\ audio' = source'
    /\ plan' = SortedReverse(hits)
    /\ k' = 1
    /\ pc' = "edit"
    /\ UNCHANGED <<mode, wordlist, status, banned, transcribed, result, i, hits,
                   trace, exported, wpc, wstatus, merged>>

(* What one iteration did: the hit, the clamped end, the duration handed to *)
(* the synthesizer, the span read for loudness and the span written, each   *)
(* as <<first, last + 1>> of 0-based positions                              *)
Iteration(a, hit, m, outcome) ==
    LET end_ms == ClampedEnd(hit[2], Len(a))
        duration == end_ms - hit[1]
        lo == Min(hit[1], Len(a))
        rep == Replacement(a, hit[1], end_ms, m)
    IN [hit |-> hit, len |-> Len(a), end |-> end_ms, duration |-> duration, outcome |-> outcome,
        read |-> IF m = "bleep" /\ outcome # "raise"
                 THEN <<lo, Max(lo, Min(end_ms, Len(a)))>>
                 ELSE <<lo, lo>>,
        wrote |-> IF outcome = "raise" THEN <<lo, lo>> ELSE <<lo, lo + Len(rep)>>]

(* One iteration of the edit loop *)
EditStep ==
    /\ pc = "edit"
    /\ k <= Len(plan)
    /\ LET hit == plan[k]
           duration == ClampedEnd(hit[2], Len(audio)) - hit[1]
       IN \E outcome \in (IF mode = "silence" THEN {"silent"} ELSE make_bleep(duration)) :
             /\ trace' = Append(trace, Iteration(audio, hit, mode, outcome))
             /\ IF outcome = "raise"
                THEN /\ pc' = "raised"
                     /\ status' = 1
                     /\ UNCHANGED <<audio, k>>
                ELSE /\ audio' = Edited(audio, hit, mode)
                     /\ k' = k + 1
                     /\ UNCHANGED <<pc, status>>
    /\ UNCHANGED <<mode, wordlist, banned, transcribed, result, i, hits, source,
                   plan, exported, wpc, wstatus, merged>>

(* audio.export(output_path, format="mp3", bitrate="192k") *)
Export ==
    /\ pc = "edit"
    /\ k > Len(plan)
    /\ exported' = TRUE
    /\ pc' = "done"
    /\ UNCHANGED <<mode, wordlist, status, banned, transcribed, result, i, hits,
                   source, audio, plan, k, trace, wpc, wstatus, merged>>

---------------------------------------------------------------------------
(* bleepvideo.py, from the return of the bleep.py subprocess *)

BleepEnded == pc \in {"exit_no_input", "exit_empty", "exit_no_hits", "done", "raised"}

(* if result.returncode != 0: sys.exit(1) *)
VideoBleepFailed ==
    /\ wpc = "run_bleep" /\ BleepEnded
    /\ status # 0
    /\ wpc' = "exit"
    /\ wstatus' = 1
    /\ UNCHANGED <<mode, wordlist, pc, status, banned, transcribed, result, i,
                   hits, source, audio, plan, k, trace, exported, merged>>

(* if not os.path.exists(clean_audio): sys.exit(0) *)
VideoNoChange ==
    /\ wpc = "run_bleep" /\ BleepEnded
    /\ status = 0
    /\ ~exported
    /\ wpc' = "exit"
    /\ wstatus' = 0
    /\ UNCHANGED <<mode, wordlist, pc, status, banned, transcribed, result, i,
                   hits, source, audio, plan, k, trace, exported, merged>>

(* merge_audio_video(video_path, clean_audio, output_path) *)
VideoMerge ==
    /\ wpc = "run_bleep" /\ BleepEnded
    /\ status = 0
    /\ exported
    /\ merged' = TRUE
    /\ wpc' = "exit"
    /\ \E ok \in BOOLEAN : wstatus' = IF ok THEN 0 ELSE 1
    /\ UNCHANGED <<mode, wordlist, pc, status, banned, transcribed, result, i,
                   hits, source, audio, plan, k, trace, exported>>

Next ==
    \/ CheckInput
    \/ LoadWordlist
    \/ Transcribe
    \/ MatchWord
    \/ MatchDone
    \/ LoadAudio
    \/ EditStep
    \/ Export
    \/ VideoBleepFailed
    \/ VideoNoChange
    \/ VideoMerge

Spec == Init /\ [][Next]_vars

---------------------------------------------------------------------------
(* Properties *)

Loaded == k >= 1
LoopDone == k >= 1 /\ k > Len(plan)

(* Whether the 0-based millisecond p lies in a clamped interval of the plan *)
Covered(p) ==
    \E n \in 1..Len(plan) : plan[n][1] <= p /\ p < Min(plan[n][2], Len(source))

(* The indices, in order, of the visited words whose cleaned text is banned *)
MatchedIdx ==
    LET F[n \in 0..i] ==
            IF n = 0 THEN <<>>
            ELSE IF clean_word(result[n].word) \in banned
                 THEN Append(F[n - 1], n) ELSE F[n - 1]
    IN F[i]

FloorMs(t) == t \div 2
CeilMs(t) == (t + 1) \div 2

(* C1: after every splice of the edit loop, whatever the hits (overlapping, *)
(* ending past the buffer, starting at or past its end), the buffer is as   *)
(* long as the decoded source.                                              *)
C1_DurationInvariance == Loaded => Len(audio) = Len(source)

C1_Witness ==
    /\ LoopDone
    /\ \E n \in 1..Len(plan) : plan[n][1] >= Len(source)
    /\ \E n \in 1..Len(plan) : plan[n][1] < Len(source) /\ plan[n][2] > Len(source)
    /\ Len(audio) = Len(source)

(* C2: once the edit loop has applied every hit, each millisecond outside   *)
(* every clamped interval holds what the source held at that position.      *)
C2_UneditedPreserved ==
    LoopDone =>
        \A p \in 1..Len(source) :
            ~Covered(p - 1) => (p <= Len(audio) /\ audio[p] = source[p])

C2_Witness ==
    /\ LoopDone
    /\ \E p \in 1..Len(source) : Covered(p - 1) /\ audio[p] # source[p]
    /\ \E p, q \in 1..Len(source) :
          /\ p < q /\ Covered(p - 1) /\ ~Covered(q - 1)
          /\ source[q] # 0 /\ audio[q] = source[q]

(* C3: the matching loop emits one interval for a word if and only if its   *)
(* cleaned text is in the banned set, in transcript order; a word that      *)
(* cleans to the empty string emits nothing.                                *)
C3_Matching ==
    /\ Len(hits) = Len(MatchedIdx)
    /\ \A n \in 1..Len(MatchedIdx) :
          n <= Len(hits) /\ hits[n] = RawInterval(result[MatchedIdx[n]])
    /\ <<>> \notin banned

C3_Witness ==
    /\ pc = "match" /\ i = 2 /\ Len(hits) = 1
    /\ clean_word(result[1].word) = <<>>
    /\ clean_word(result[2].word) \in banned

(* C4, as stated: startMs = max(0, floor(startTime*1000) - 80) and          *)
(* endMs = ceil(endTime*1000) + 80 for every matched word.                  *)
C4_RawIntervalCeil ==
    \A n \in 1..Len(MatchedIdx) :
        LET w == result[MatchedIdx[n]]
        IN /\ n <= Len(hits)
           /\ hits[n][1] = Max(0, FloorMs(w.start) - 80)
           /\ hits[n][1] >= 0
           /\ hits[n][2] = CeilMs(w.end) + 80
           /\ (w.start = 20000 /\ w.end = 20800 => hits[n] = <<9920, 10480>>)

(* C4, amended: startMs = max(0, floor(startTime*1000) - 80) and            *)
(* endMs = floor(endTime*1000) + 80 for every matched word; startMs is      *)
(* never negative, and a word at (10.0 s, 10.4 s) yields {9920, 10480}.     *)
C4_RawIntervalFloor ==
    \A n \in 1..Len(MatchedIdx) :
        LET w == result[MatchedIdx[n]]
        IN /\ n <= Len(hits)
           /\ hits[n][1] = Max(0, FloorMs(w.start) - 80)
           /\ hits[n][1] >= 0
           /\ hits[n][2] = FloorMs(w.end) + 80
           /\ (w.start = 20000 /\ w.end = 20800 => hits[n] = <<9920, 10480>>)

C4_Witness ==
    /\ pc = "match" /\ i = 2
    /\ result[1].start = 60 /\ result[2].end = 301
    /\ hits = << <<0, 180>>, <<20, 230>> >>

C6_ClampCorrectness ==
    \A n \in 1..Len(trace) :
        LET r == trace[n]
        IN /\ r.end = Min(r.hit[2], r.len)
           /\ 0 <= r.hit[1] /\ r.end <= r.len
           /\ 0 <= r.read[1] /\ r.read[1] <= r.read[2] /\ r.read[2] <= r.len
           /\ 0 <= r.wrote[1] /\ r.wrote[1] <= r.wrote[2] /\ r.wrote[2] <= r.len
           /\ (r.hit[2] > r.len => r.duration = r.len - r.hit[1])

C6_Witness ==
    \E n \in 1..Len(trace) :
        LET r == trace[n]
        IN /\ mode = "bleep" /\ r.outcome = "tone"
           /\ r.hit[2] > r.len /\ 0 < r.hit[1] /\ r.hit[1] < r.len
           /\ r.duration = r.len - r.hit[1]
           /\ r.read = <<r.hit[1], r.len>> /\ r.wrote = <<r.hit[1], r.len>>

(* C7: in silence mode, running the edit loop again with the same hits on   *)
(* the edited buffer gives the edited buffer.                               *)
C7_IdempotentSilence ==
    (LoopDone /\ mode = "silence") =>
        /\ audio = EditLoop(source, plan, "silence")
        /\ EditLoop(audio, plan, "silence") = audio

C7_Witness ==
    /\ LoopDone /\ mode = "silence"
    /\ Len(plan) = 2 /\ audio # source
    /\ \E n \in 1..Len(plan) : plan[n][2] > Len(source)

(* C8: an interval whose clamped end is <= its start is discarded, so the   *)
(* synthesizer is never handed a duration <= 0.                             *)
C8_NoDegenerateEdit ==
    \A n \in 1..Len(trace) :
        /\ Min(trace[n].hit[2], trace[n].len) > trace[n].hit[1]
        /\ trace[n].duration > 0

(* C9: every hit is applied, unmerged, in non-increasing start order, and   *)
(* after the loop every millisecond inside a clamped interval holds         *)
(* replacement content (silence in silence mode), the length unchanged.     *)
C9_OverlapsAllApplied ==
    LoopDone =>
        /\ Len(plan) = Len(hits)
        /\ \A h \in {hits[n] : n \in 1..Len(hits)} :
              Cardinality({n \in 1..Len(hits) : hits[n] = h})
                  = Cardinality({n \in 1..Len(plan) : plan[n] = h})
        /\ \A n \in 1..(Len(plan) - 1) : plan[n][1] >= plan[n + 1][1]
        /\ Len(trace) = Len(plan)
        /\ \A n \in 1..Len(plan) : trace[n].hit = plan[n]
        /\ Len(audio) = Len(source)
        /\ \A p \in 1..Len(source) :
              Covered(p - 1) =>
                  /\ p <= Len(audio)
                  /\ IF mode = "silence" THEN audio[p] = 0 ELSE audio[p] < 0

C9_Witness ==
    /\ LoopDone
    /\ plan = << <<20, 230>>, <<0, 180>> >>
    /\ Len(source) > 230
    /\ \A p \in 1..230 : IF mode = "silence" THEN audio[p] = 0 ELSE audio[p] < 0
    /\ audio[231] = source[231]

(* C10: every element of the banned set is in normalized form (lowercase,   *)
(* letters only), and comment and blank lines contribute no element.        *)
C10_BannedNormalised ==
    /\ \A w \in banned : clean_word(w) = w
    /\ \A w \in banned :
          /\ w # <<>> /\ Head(w) # "#"
          /\ \E n \in 1..Len(wordlist.lines) : w = LineWord(wordlist.lines[n])

===========================================================================
